---- MODULE Spec2Model ----
(***************************************************************************)
(* Model of the .env configuration store of bb_sync.py: the file lock,     *)
(* the load / write-via-temp-file protocol, the REPO_LIST helpers and the  *)
(* legacy-key migration.                                                   *)
(*                                                                         *)
(* Python strings are sequences of one-character strings, so that strip,   *)
(* rstrip, splitlines, split and join are computed as Python computes      *)
(* them.  A dict is a sequence of [k, v] records with pairwise distinct    *)
(* keys, in insertion order.                                               *)
(***************************************************************************)
EXTENDS Integers, Sequences, FiniteSets, TLC

VARIABLES
    \* ---- SpecUrl: the pure URL helpers applied to one string
    url,        \* the string the helpers are applied to
    urlPrev,    \* its value before the last normalize_url_for_list call
    nNorm,      \* how many times normalize_url_for_list has been applied
    parsed,     \* the last parse_repo_list call: its argument and its result
    \* ---- SpecMap: one process calling the helpers one after the other
    env_map,    \* the dict the caller holds
    env_file,   \* the text of ENV_FILE, or NoFile while it does not exist
    os_environ, \* os.environ of the process (only the keys load_env_file set)
    last,       \* the last call: its name, argument, result and the dict before it
    nOps,       \* how many calls have been made
    \* ---- Spec: processes sharing ENV_FILE and its lock marker
    pc,         \* where each process is
    op,         \* the store call it is in: "load" or "write"
    fallback,   \* it is in the call's `except TimeoutError` handler
    f,          \* the inode its handle on the lock marker is open on, 0 if none
    flocked,    \* its handle holds the exclusive flock
    lock_path,  \* the inode the marker path names, 0 while the marker does not exist
    elapsed,    \* time.time() - start in file_lock, in ticks
    existing,   \* the dict it loaded (ensure_repo_list's `existing`)
    environ,    \* its os.environ (only the keys load_env_file set)
    content,    \* the document write_env serialized
    temp_file,  \* the text of its temporary file, NoFile if it has none
    timed_out,  \* some file_lock call has raised TimeoutError
    unlink_failed \* some lock_path.unlink() after a held lock has raised

urlVars == <<url, urlPrev, nNorm, parsed>>
mapVars == <<env_map, os_environ, last, nOps>>
procVars == <<pc, op, fallback, f, flocked, lock_path, elapsed, existing, environ,
              content, temp_file, timed_out, unlink_failed>>
vars == <<urlVars, mapVars, env_file, procVars>>

(***************************************************************************)
(* Python string primitives                                                *)
(***************************************************************************)

\* str.strip() removes these (the whitespace the model's alphabets contain)
Whitespace == {" ", "\n", "\t"}

Last(s) == s[Len(s)]
Front(s) == SubSeq(s, 1, Len(s) - 1)

RECURSIVE LStripSet(_, _)
LStripSet(s, cs) ==
    IF s # <<>> /\ Head(s) \in cs THEN LStripSet(Tail(s), cs) ELSE s

RECURSIVE RStripSet(_, _)
RStripSet(s, cs) ==
    IF s # <<>> /\ Last(s) \in cs THEN RStripSet(Front(s), cs) ELSE s

\* str.strip()
Strip(s) == RStripSet(LStripSet(s, Whitespace), Whitespace)

\* str.split(sep) for a one-character separator: empty fragments are kept
RECURSIVE SplitOn(_, _)
SplitOn(s, sep) ==
    IF \E i \in 1..Len(s) : s[i] = sep
    THEN LET i == CHOOSE j \in 1..Len(s) :
                      s[j] = sep /\ \A h \in 1..(j - 1) : s[h] # sep
         IN  <<SubSeq(s, 1, i - 1)>> \o SplitOn(SubSeq(s, i + 1, Len(s)), sep)
    ELSE <<s>>

\* str.splitlines(): split at line breaks, no empty last line
SplitLines(s) ==
    LET parts == SplitOn(s, "\n")
    IN  IF Last(parts) = <<>> THEN Front(parts) ELSE parts

\* sep.join(parts)
RECURSIVE Join(_, _)
Join(parts, sep) ==
    IF parts = <<>> THEN <<>>
    ELSE IF Len(parts) = 1 THEN parts[1]
    ELSE parts[1] \o sep \o Join(Tail(parts), sep)

MapSeq(s, F(_)) == [i \in 1..Len(s) |-> F(s[i])]

RECURSIVE Flatten(_)
Flatten(ss) == IF ss = <<>> THEN <<>> ELSE Head(ss) \o Flatten(Tail(ss))

Range(s) == {s[i] : i \in 1..Len(s)}

(***************************************************************************)
(* URL helpers                                                             *)
(***************************************************************************)

\* url.strip().rstrip("/")
normalize_url_for_list(u) == RStripSet(Strip(u), {"/"})

NonEmpty(s) == s # <<>>

\* a slip: the lines are not split on commas (as ensure_url_in_repo_list reads)
ParseLinesOnly(text) ==
    IF text = <<>> THEN <<>>
    ELSE SelectSeq(MapSeq(SplitLines(text), Strip), NonEmpty)

\* split on lines, each line on commas, strip, drop the empty fragments
parse_repo_list(text) ==
    IF text = <<>> THEN <<>>
    ELSE LET lines == SplitLines(text)
             PartsOf(line) == SelectSeq(MapSeq(SplitOn(line, ","), Strip), NonEmpty)
         IN  Flatten(MapSeq(lines, PartsOf))

(***************************************************************************)
(* Python dicts: a sequence of [k, v] with distinct keys, insertion order   *)
(***************************************************************************)

DictKeys(m) == {m[i].k : i \in 1..Len(m)}

DictHas(m, key) == key \in DictKeys(m)

\* m.get(key, default)
DictGet(m, key, default) ==
    IF DictHas(m, key)
    THEN m[CHOOSE i \in 1..Len(m) : m[i].k = key].v
    ELSE default

\* m[key] = value: an existing key keeps its position
DictSet(m, key, value) ==
    IF DictHas(m, key)
    THEN [i \in 1..Len(m) |-> IF m[i].k = key THEN [k |-> key, v |-> value] ELSE m[i]]
    ELSE Append(m, [k |-> key, v |-> value])

\* m.setdefault(key, value)
DictSetDefault(m, key, value) ==
    IF DictHas(m, key) THEN m ELSE Append(m, [k |-> key, v |-> value])

\* m.pop(key, None)
DictPop(m, key) == LET Other(e) == e.k # key IN SelectSeq(m, Other)

\* dict equality does not look at the insertion order
DictEq(m1, m2) ==
    /\ DictKeys(m1) = DictKeys(m2)
    /\ \A key \in DictKeys(m1) : DictGet(m1, key, <<>>) = DictGet(m2, key, <<>>)

(***************************************************************************)
(* The .env document                                                       *)
(***************************************************************************)

\* what a path that names no file holds: no text, since "absent" is no character
NoFile == <<"absent">>

REPO_LIST == <<"R", "E", "P", "O", "_", "L", "I", "S", "T">>

HeaderTitle == <<"#", " ", "B", "i", "t", "b", "u", "c", "k", "e", "t", " ", "S", "y", "n", "c", " ", ".", "e", "n", "v">>
HeaderHint == <<"#", " ", "F", "i", "l", "l", " ", "r", "e", "q", "u", "i", "r", "e", "d", " ", "v", "a", "l", "u", "e", "s", ".", " ", "I", "N", "S", "E", "C", "U", "R", "E", "=", "t", "r", "u", "e", " ", "b", "y", " ", "d", "e", "f", "a", "u", "l", "t", ".">>

\* f"{k}={v}"
EntryLine(e) == e.k \o <<"=">> \o e.v

\* write_env: content = "\n".join(header + ["k=v" ...]) + "\n"
EnvContent(m) ==
    Join(<<HeaderTitle, HeaderHint, <<>>>> \o MapSeq(m, EntryLine), <<"\n">>) \o <<"\n">>

StartsWith(s, prefix) ==
    Len(s) >= Len(prefix) /\ SubSeq(s, 1, Len(prefix)) = prefix

\* line.split("=", 1)
SplitFirstEq(line) ==
    LET i == CHOOSE j \in 1..Len(line) :
                 line[j] = "=" /\ \A h \in 1..(j - 1) : line[h] # "="
    IN  <<SubSeq(line, 1, i - 1), SubSeq(line, i + 1, Len(line))>>

\* if "=" in line and not line.strip().startswith("#")
IsEntryLine(line) == "=" \in Range(line) /\ ~StartsWith(Strip(line), <<"#">>)

\* the loop of load_env_file over the lines of the text, filling env
RECURSIVE LoadLines(_, _)
LoadLines(lines, env) ==
    IF lines = <<>> THEN env
    ELSE IF IsEntryLine(Head(lines))
    THEN LET kv == SplitFirstEq(Head(lines))
         IN  LoadLines(Tail(lines), DictSet(env, Strip(kv[1]), Strip(kv[2])))
    ELSE LoadLines(Tail(lines), env)

\* the dict load_env_file builds from the file (empty when it does not exist)
ParseEnv(file) ==
    IF file = NoFile THEN <<>> ELSE LoadLines(SplitLines(file), <<>>)

\* os.environ.setdefault(k, v) for every entry line, in file order
RECURSIVE MirrorLines(_, _)
MirrorLines(lines, setenv) ==
    IF lines = <<>> THEN setenv
    ELSE IF IsEntryLine(Head(lines))
    THEN LET kv == SplitFirstEq(Head(lines))
         IN  MirrorLines(Tail(lines), DictSetDefault(setenv, Strip(kv[1]), Strip(kv[2])))
    ELSE MirrorLines(Tail(lines), setenv)

MirrorEnv(file, setenv) ==
    IF file = NoFile THEN setenv ELSE MirrorLines(SplitLines(file), setenv)

(***************************************************************************)
(* REPO_LIST and legacy keys                                               *)
(***************************************************************************)

\* returns the dict after the call and the call's result
ensure_url_in_repo_list(m, u) ==
    LET raw == DictGet(m, REPO_LIST, <<>>)
        items == SelectSeq(MapSeq(SplitLines(raw), Strip), NonEmpty)
        normalized_existing == {normalize_url_for_list(x) : x \in Range(items)}
        norm_url == normalize_url_for_list(u)
    IN  IF norm_url \in normalized_existing
        THEN [env |-> m, ret |-> FALSE]
        ELSE [env |-> DictSet(m, REPO_LIST, Join(Append(items, norm_url), <<"\n">>)),
              ret |-> TRUE]

RepoPrefix == <<"R", "E", "P", "O", "_">>

SlugChars == {"A", "B", "C", "D", "E", "F", "G", "H", "I", "J", "K", "L", "M", "N", "O", "P", "Q", "R", "S", "T", "U", "V", "W", "X", "Y", "Z", "0", "1", "2", "3", "4", "5", "6", "7", "8", "9", "_"}

\* re.fullmatch(r"REPO_[A-Z0-9_]+", k)
MatchesRepoKey(key) ==
    /\ StartsWith(key, RepoPrefix)
    /\ Len(key) > Len(RepoPrefix)
    /\ \A i \in (Len(RepoPrefix) + 1)..Len(key) : key[i] \in SlugChars

\* pops every key the pattern matches
migrate_old_repo_keys(m) == LET Kept(e) == ~MatchesRepoKey(e.k) IN SelectSeq(m, Kept)

(***************************************************************************)
(* SpecUrl: normalize_url_for_list applied to every bounded string         *)
(***************************************************************************)

MaxUrlLen == 4

UrlAlphabet == {"a", "/", " ", ",", "\n"}

RECURSIVE StringsUpTo(_, _)
StringsUpTo(alphabet, n) ==
    IF n = 0 THEN {<<>>}
    ELSE LET shorter == StringsUpTo(alphabet, n - 1)
         IN  shorter \cup {Append(s, c) : s \in shorter, c \in alphabet}

NoCall == [op |-> "none", arg |-> <<>>, ret |-> FALSE, pre |-> <<>>, afterWrite |-> FALSE,
           prevOp |-> "none", prevArg |-> <<>>]

\* the values of the variables a specification does not use
NotParsed == [of |-> <<>>, items |-> <<>>]
UrlIdle == url = <<>> /\ urlPrev = <<>> /\ nNorm = 0 /\ parsed = NotParsed
MapIdle == env_map = <<>> /\ os_environ = <<>> /\ last = NoCall /\ nOps = 0
ProcIdle ==
    /\ pc = <<>> /\ op = <<>> /\ fallback = <<>> /\ f = <<>> /\ flocked = <<>>
    /\ lock_path = 0 /\ elapsed = <<>> /\ existing = <<>> /\ environ = <<>>
    /\ content = <<>> /\ temp_file = <<>> /\ timed_out = FALSE
    /\ unlink_failed = FALSE

UrlInit ==
    /\ url \in StringsUpTo(UrlAlphabet, MaxUrlLen)
    /\ urlPrev = <<>>
    /\ nNorm = 0
    /\ parsed = NotParsed
    /\ MapIdle /\ env_file = NoFile /\ ProcIdle

Normalize ==
    /\ nNorm < 2
    /\ urlPrev' = url
    /\ url' = normalize_url_for_list(url)
    /\ nNorm' = nNorm + 1
    /\ UNCHANGED <<parsed, mapVars, env_file, procVars>>

\* parse_repo_list(url)
Parse ==
    /\ parsed.of # url \/ parsed = NotParsed
    /\ parsed' = [of |-> url, items |-> parse_repo_list(url)]
    /\ UNCHANGED <<url, urlPrev, nNorm, mapVars, env_file, procVars>>

UrlNext == Normalize \/ Parse

SpecUrl == UrlInit /\ [][UrlNext]_vars

(***************************************************************************)
(* SpecMap: one process, no contention on the lock; it calls the helpers   *)
(* and the store in any order, at most MaxOps times                        *)
(***************************************************************************)

MaxOps == 3

K_INSECURE == <<"I", "N", "S", "E", "C", "U", "R", "E">>
K_REPO_A == <<"R", "E", "P", "O", "_", "A">>
K_REPO_A_LAST_SYNC == <<"R", "E", "P", "O", "_", "A", "_", "L", "A", "S", "T", "_", "S", "Y", "N", "C">>

\* REPO_LIST values in the encodings parse_repo_list accepts, each with
\* entries that are pairwise distinct under normalize_url_for_list
InitRepoLists ==
    { <<>>, <<"a">>, <<"a", "\n", "b">>, <<"a", ",", "b">>, <<"a", "/", "\n", "b">> }

Opt(key, values) == {<<>>} \cup {<<[k |-> key, v |-> val]>> : val \in values}

InitMaps ==
    { a \o b \o c \o d :
        a \in Opt(K_INSECURE, {<<"t", "r", "u", "e">>}),
        b \in Opt(REPO_LIST, InitRepoLists),
        c \in Opt(K_REPO_A, {<<"a">>}),
        d \in Opt(K_REPO_A_LAST_SYNC, {<<"t">>}) }

\* an .env left by an earlier run or by hand
OldFile == <<"#", "x", "\n", "K", "=", "o", "\n">>

UrlArgs == { <<"a">>, <<"a", "/">>, <<"b">>, <<" ", "c", "/">> }

\* what discovery returns: one or more clone URLs
Discoveries == { << <<"a">> >>, << <<"a">>, <<"b">> >>, << <<"b", "/">>, <<"a">> >> }

Slugs == { <<"m", "y", "-", "r", "e", "p", "o">> }
RepoUrls == { <<"h", "t", "t", "p", "s", ":", "/", "/", "x", "/", "m", "y", "-", "r", "e", "p", "o">> }
Branches == { <<"m", "a", "i", "n">> }
Statuses == { <<"c", "l", "o", "n", "e", "d">>, <<"u", "p", "d", "a", "t", "e", "d">>, <<"e", "r", "r", "o", "r">> }

MapInit ==
    /\ env_map \in InitMaps
    /\ env_file \in {NoFile, OldFile}
    /\ os_environ = <<>>
    /\ last = NoCall
    /\ nOps = 0
    /\ UrlIdle /\ ProcIdle

Called(name, arg, ret) ==
    /\ nOps < MaxOps
    /\ nOps' = nOps + 1
    /\ last' = [op |-> name, arg |-> arg, ret |-> ret, pre |-> env_map,
                afterWrite |-> (last.op = "write_env"),
                prevOp |-> last.op, prevArg |-> last.arg]

EnsureUrl(u) ==
    LET r == ensure_url_in_repo_list(env_map, u)
    IN  /\ Called("ensure_url_in_repo_list", u, r.ret)
        /\ env_map' = r.env
        /\ UNCHANGED <<env_file, os_environ, urlVars, procVars>>

Migrate ==
    /\ Called("migrate_old_repo_keys", <<>>, FALSE)
    /\ env_map' = migrate_old_repo_keys(env_map)
    /\ UNCHANGED <<env_file, os_environ, urlVars, procVars>>

\* write_env with the lock free: temp file written in full, then os.replace
WriteEnv ==
    /\ Called("write_env", <<>>, FALSE)
    /\ env_file' = EnvContent(env_map)
    /\ UNCHANGED <<env_map, os_environ, urlVars, procVars>>

\* load_env_file with the lock free
LoadEnv ==
    /\ Called("load_env_file", <<>>, FALSE)
    /\ env_map' = ParseEnv(env_file)
    /\ os_environ' = MirrorEnv(env_file, os_environ)
    /\ UNCHANGED <<env_file, urlVars, procVars>>

RECURSIVE EnsureAll(_, _)
EnsureAll(m, urls) ==
    IF urls = <<>> THEN m
    ELSE EnsureAll(ensure_url_in_repo_list(m, Head(urls)).env, Tail(urls))

\* ensure_repo_list(env_map) when REPO_LIST is empty and discovery returned
\* `discovered`: existing = load_env_file(); every discovered URL ensured in
\* existing; write_env(existing); returns the normalized discovered URLs
EnsureRepoList(discovered) ==
    LET stored == ParseEnv(env_file)
        urls == parse_repo_list(DictGet(env_map, REPO_LIST, <<>>))
    IN  /\ urls = <<>>
        /\ Called("ensure_repo_list",
                  [discovered |-> discovered,
                   stored |-> parse_repo_list(DictGet(stored, REPO_LIST, <<>>))],
                  MapSeq(discovered, normalize_url_for_list))
        /\ os_environ' = MirrorEnv(env_file, os_environ)
        /\ env_file' = EnvContent(EnsureAll(stored, discovered))
        /\ UNCHANGED <<env_map, urlVars, procVars>>

\* update_env_repo: its body is `pass`
UpdateEnvRepo(slug, repo_url, def_branch, status) ==
    /\ Called("update_env_repo",
              [slug |-> slug, url |-> repo_url, branch |-> def_branch, status |-> status],
              FALSE)
    /\ UNCHANGED <<env_map, env_file, os_environ, urlVars, procVars>>

MapNext ==
    \/ \E u \in UrlArgs : EnsureUrl(u)
    \/ Migrate
    \/ WriteEnv
    \/ LoadEnv
    \/ \E discovered \in Discoveries : EnsureRepoList(discovered)
    \/ \E slug \in Slugs, u \in RepoUrls, b \in Branches, st \in Statuses :
           UpdateEnvRepo(slug, u, b, st)

SpecMap == MapInit /\ [][MapNext]_vars

(***************************************************************************)
(* Spec: NumProcs processes, each running the persisting part of           *)
(* ensure_repo_list: existing = load_env_file(); ensure_url_in_repo_list   *)
(* for every discovered URL; write_env(existing).  The steps are those     *)
(* other processes can observe: opening the lock marker, each flock        *)
(* attempt, the read, the two parts of the temporary file's write, the     *)
(* rename, the unlock and the unlink.  A process may be killed after any   *)
(* step.  One tick is one poll interval; time.time() - start is counted as *)
(* the time slept, the other steps as taking none.                         *)
(***************************************************************************)

NumProcs == 2
TimeoutTicks == 1
PollTicks == 1

Procs == 1..NumProcs

Letters == <<"a", "b", "c", "d">>

\* the URLs discovery returned to process p
Discovered(p) == << <<Letters[p]>> \o (IF p % 2 = 0 THEN <<"/">> ELSE <<>>) >>

\* the .env ensure_env_defaults leaves before discovery: REPO_LIST is empty
StoredFile ==
    EnvContent(<<[k |-> K_INSECURE, v |-> <<"t", "r", "u", "e">>],
                 [k |-> REPO_LIST, v |-> <<>>]>>)

Init ==
    /\ pc = [p \in Procs |-> "open"]
    /\ op = [p \in Procs |-> "load"]
    /\ fallback = [p \in Procs |-> FALSE]
    /\ f = [p \in Procs |-> 0]
    /\ flocked = [p \in Procs |-> FALSE]
    /\ lock_path = 0
    /\ elapsed = [p \in Procs |-> 0]
    /\ existing = [p \in Procs |-> <<>>]
    /\ environ = [p \in Procs |-> <<>>]
    /\ content = [p \in Procs |-> <<>>]
    /\ temp_file = [p \in Procs |-> NoFile]
    /\ timed_out = FALSE
    /\ unlink_failed = FALSE
    /\ env_file \in {NoFile, StoredFile}
    /\ UrlIdle /\ MapIdle

\* some open handle holds the exclusive flock on inode i
InodeLocked(i) == \E q \in Procs : flocked[q] /\ f[q] = i

\* the inode a newly created marker gets: the least one neither named by the
\* path nor open in any process
FreshInode ==
    CHOOSE i \in 1..(NumProcs + 1) :
        /\ i # lock_path /\ \A q \in Procs : f[q] # i
        /\ \A j \in 1..(i - 1) : j = lock_path \/ \E q \in Procs : f[q] = j

\* write_env and ensure_repo_list return: their locals are gone
Returned(p) ==
    /\ existing' = [existing EXCEPT ![p] = <<>>]
    /\ content' = [content EXCEPT ![p] = <<>>]

\* the steps of the bodies
BodyPcs == {"read", "tmp_write", "tmp_flush", "replace"}

\* where a body is taken to raise: at its first file operation, read_text in
\* load_env_file and NamedTemporaryFile in write_env
RaisePcs == {"read", "tmp_write"}

\* the first step of the body of `with file_lock(ENV_FILE)` in each call
BodyStart(p) == IF op[p] = "load" THEN "read" ELSE "tmp_write"

\* write_env up to open(lock_path, "w"), load_env_file up to the same point
Open(p) ==
    /\ pc[p] = "open"
    /\ LET i == IF lock_path = 0 THEN FreshInode ELSE lock_path
       IN  /\ lock_path' = i
           /\ f' = [f EXCEPT ![p] = i]
    /\ elapsed' = [elapsed EXCEPT ![p] = 0]
    /\ content' = [content EXCEPT ![p] =
                      IF op[p] = "write" THEN EnvContent(existing[p]) ELSE @]
    /\ pc' = [pc EXCEPT ![p] = "try"]
    /\ UNCHANGED <<op, fallback, flocked, existing, environ, temp_file, timed_out, unlink_failed,
                   env_file, urlVars, mapVars>>

\* fcntl.flock(LOCK_EX | LOCK_NB) succeeds
TryLock(p) ==
    /\ pc[p] = "try"
    /\ ~InodeLocked(f[p])
    /\ flocked' = [flocked EXCEPT ![p] = TRUE]
    /\ elapsed' = [elapsed EXCEPT ![p] = 0]
    /\ pc' = [pc EXCEPT ![p] = BodyStart(p)]
    /\ UNCHANGED <<op, fallback, f, lock_path, existing, environ, content, temp_file,
                   timed_out, unlink_failed, env_file, urlVars, mapVars>>

\* a slip: the poll that finds the timeout exceeded sleeps once more
TryFailLate(p) ==
    /\ pc[p] = "try"
    /\ InodeLocked(f[p])
    /\ IF elapsed[p] > TimeoutTicks + PollTicks
       THEN /\ f' = [f EXCEPT ![p] = 0]
            /\ timed_out' = TRUE
            /\ pc' = [pc EXCEPT ![p] = "timeout_unlink"]
            /\ UNCHANGED elapsed
       ELSE /\ elapsed' = [elapsed EXCEPT ![p] = @ + PollTicks]
            /\ UNCHANGED <<f, timed_out, pc>>
    /\ UNCHANGED <<op, fallback, flocked, lock_path, existing, environ, content,
                   temp_file, unlink_failed, env_file, urlVars, mapVars>>

\* flock raises: past the timeout close f and raise TimeoutError, else sleep
TryFail(p) ==
    /\ pc[p] = "try"
    /\ InodeLocked(f[p])
    /\ IF elapsed[p] > TimeoutTicks
       THEN /\ f' = [f EXCEPT ![p] = 0]
            /\ timed_out' = TRUE
            /\ pc' = [pc EXCEPT ![p] = "timeout_unlink"]
            /\ UNCHANGED elapsed
       ELSE /\ elapsed' = [elapsed EXCEPT ![p] = @ + PollTicks]
            /\ UNCHANGED <<f, timed_out, pc>>
    /\ UNCHANGED <<op, fallback, flocked, lock_path, existing, environ, content,
                   temp_file, unlink_failed, env_file, urlVars, mapVars>>

\* a slip: no `except TimeoutError` around the call, the error reaches the
\* caller
TimeoutPropagates(p) ==
    /\ pc[p] = "timeout_unlink"
    /\ lock_path' = 0
    /\ elapsed' = [elapsed EXCEPT ![p] = 0]
    /\ pc' = [pc EXCEPT ![p] = "failed"]
    /\ UNCHANGED <<op, fallback, f, flocked, existing, environ, content, temp_file,
                   timed_out, unlink_failed, env_file, urlVars, mapVars>>

\* the outer finally on the way out with TimeoutError: lock_path.unlink(),
\* then the caller's `except TimeoutError` runs the body without the lock
TimeoutUnlink(p) ==
    /\ pc[p] = "timeout_unlink"
    /\ lock_path' = 0
    /\ fallback' = [fallback EXCEPT ![p] = TRUE]
    /\ elapsed' = [elapsed EXCEPT ![p] = 0]
    /\ pc' = [pc EXCEPT ![p] = BodyStart(p)]
    /\ UNCHANGED <<op, f, flocked, existing, environ, content, temp_file, timed_out, unlink_failed,
                   env_file, urlVars, mapVars>>

\* load_env_file: read and parse ENV_FILE
Read(p) ==
    /\ pc[p] = "read"
    /\ existing' = [existing EXCEPT ![p] = ParseEnv(env_file)]
    /\ environ' = [environ EXCEPT ![p] = MirrorEnv(env_file, @)]
    /\ pc' = [pc EXCEPT ![p] = IF fallback[p] THEN "ensure" ELSE "unlock"]
    /\ fallback' = [fallback EXCEPT ![p] = FALSE]
    /\ UNCHANGED <<op, f, flocked, lock_path, elapsed, content, temp_file, timed_out, unlink_failed,
                   env_file, urlVars, mapVars>>

\* a slip: no finally clause around the body, so an exception raised in it
\* leaves file_lock with the handle open and locked
BodyRaisesNoFinally(p) ==
    /\ pc[p] \in RaisePcs
    /\ pc' = [pc EXCEPT ![p] = "failed"]
    /\ fallback' = [fallback EXCEPT ![p] = FALSE]
    /\ op' = [op EXCEPT ![p] = "none"]
    /\ environ' = [environ EXCEPT ![p] = <<>>]
    /\ Returned(p)
    /\ UNCHANGED <<f, flocked, lock_path, elapsed, temp_file, timed_out,
                   unlink_failed, env_file, urlVars, mapVars>>

\* the body raises (read_text fails, or the temporary file cannot be
\* created): inside `with file_lock` the exception is thrown into the generator
\* at `yield` and the two finally clauses run; in the `except TimeoutError`
\* handler it leaves the call at once.  No caller catches it, the process
\* ends with it and nothing of its memory is read again.
BodyRaises(p) ==
    /\ pc[p] \in RaisePcs
    /\ pc' = [pc EXCEPT ![p] = IF fallback[p] THEN "failed" ELSE "unlock_exc"]
    /\ fallback' = [fallback EXCEPT ![p] = FALSE]
    /\ op' = [op EXCEPT ![p] = "none"]
    /\ environ' = [environ EXCEPT ![p] = <<>>]
    /\ Returned(p)
    /\ UNCHANGED <<f, flocked, lock_path, elapsed, temp_file, timed_out,
                   unlink_failed, env_file, urlVars, mapVars>>

\* the inner finally and f.close(): flock(LOCK_UN), close; "unlock_exc" is
\* the same place with the body's exception in flight
Unlock(p) ==
    /\ pc[p] \in {"unlock", "unlock_exc"}
    /\ flocked' = [flocked EXCEPT ![p] = FALSE]
    /\ f' = [f EXCEPT ![p] = 0]
    /\ pc' = [pc EXCEPT ![p] = IF pc[p] = "unlock" THEN "unlink" ELSE "unlink_exc"]
    /\ UNCHANGED <<op, fallback, lock_path, elapsed, existing, environ, content,
                   temp_file, timed_out, unlink_failed, env_file, urlVars, mapVars>>

\* lock_path.unlink(): the path no longer names the marker; when another
\* process has removed it already the call raises FileNotFoundError, which
\* the `except Exception: pass` around it drops.  Then the call returns, or
\* the body's exception goes on to the caller.
Unlink(p) ==
    /\ pc[p] \in {"unlink", "unlink_exc"}
    /\ lock_path' = 0
    /\ unlink_failed' = (unlink_failed \/ lock_path = 0)
    /\ pc' = [pc EXCEPT ![p] = IF pc[p] = "unlink_exc" THEN "failed"
                               ELSE IF op[p] = "load" THEN "ensure" ELSE "done"]
    /\ IF pc[p] = "unlink" /\ op[p] = "load"
       THEN UNCHANGED <<existing, content>>
       ELSE Returned(p)
    /\ UNCHANGED <<op, fallback, f, flocked, elapsed, environ, temp_file, timed_out,
                   env_file, urlVars, mapVars>>

\* for u in discovered: ensure_url_in_repo_list(existing, u)
Ensure(p) ==
    /\ pc[p] = "ensure"
    /\ existing' = [existing EXCEPT ![p] = EnsureAll(@, Discovered(p))]
    /\ op' = [op EXCEPT ![p] = "write"]
    /\ pc' = [pc EXCEPT ![p] = "open"]
    /\ UNCHANGED <<fallback, f, flocked, lock_path, elapsed, environ, content,
                   temp_file, timed_out, unlink_failed, env_file, urlVars, mapVars>>

FirstPart(text) == SubSeq(text, 1, Len(text) \div 2)

\* a slip: the document is written over ENV_FILE itself
TmpWriteInPlace(p) ==
    /\ pc[p] = "tmp_write"
    /\ env_file' = FirstPart(content[p])
    /\ temp_file' = [temp_file EXCEPT ![p] = FirstPart(content[p])]
    /\ pc' = [pc EXCEPT ![p] = "tmp_flush"]
    /\ UNCHANGED <<op, fallback, f, flocked, lock_path, elapsed, existing, environ,
                   content, timed_out, unlink_failed, urlVars, mapVars>>

\* NamedTemporaryFile(dir=...) and the first part of tf.write(content)
TmpWrite(p) ==
    /\ pc[p] = "tmp_write"
    /\ temp_file' = [temp_file EXCEPT ![p] = FirstPart(content[p])]
    /\ pc' = [pc EXCEPT ![p] = "tmp_flush"]
    /\ UNCHANGED <<op, fallback, f, flocked, lock_path, elapsed, existing, environ,
                   content, timed_out, unlink_failed, env_file, urlVars, mapVars>>

\* the rest of tf.write(content) and the close of the temporary file
TmpFlush(p) ==
    /\ pc[p] = "tmp_flush"
    /\ temp_file' = [temp_file EXCEPT ![p] = content[p]]
    /\ pc' = [pc EXCEPT ![p] = "replace"]
    /\ UNCHANGED <<op, fallback, f, flocked, lock_path, elapsed, existing, environ,
                   content, timed_out, unlink_failed, env_file, urlVars, mapVars>>

\* os.replace(temp_name, ENV_FILE)
Replace(p) ==
    /\ pc[p] = "replace"
    /\ env_file' = temp_file[p]
    /\ temp_file' = [temp_file EXCEPT ![p] = NoFile]
    /\ pc' = [pc EXCEPT ![p] = IF fallback[p] THEN "done" ELSE "unlock"]
    /\ fallback' = [fallback EXCEPT ![p] = FALSE]
    /\ IF fallback[p] THEN Returned(p) ELSE UNCHANGED <<existing, content>>
    /\ UNCHANGED <<op, f, flocked, lock_path, elapsed, environ, timed_out, unlink_failed, urlVars,
                   mapVars>>

\* the process is killed: its memory is gone and its handle is closed, which
\* drops its flock; no finally clause runs, so the marker and the temporary
\* file stay
Crash(p) ==
    /\ pc[p] \notin {"done", "failed", "crashed"}
    /\ pc' = [pc EXCEPT ![p] = "crashed"]
    /\ flocked' = [flocked EXCEPT ![p] = FALSE]
    /\ f' = [f EXCEPT ![p] = 0]
    /\ fallback' = [fallback EXCEPT ![p] = FALSE]
    /\ elapsed' = [elapsed EXCEPT ![p] = 0]
    /\ environ' = [environ EXCEPT ![p] = <<>>]
    /\ Returned(p)
    /\ op' = [op EXCEPT ![p] = "none"]
    /\ UNCHANGED <<lock_path, temp_file, timed_out, unlink_failed, env_file, urlVars, mapVars>>

Next ==
    \E p \in Procs :
        \/ Open(p)
        \/ TryLock(p)
        \/ TryFail(p)
        \/ TimeoutUnlink(p)
        \/ Read(p)
        \/ Unlock(p)
        \/ Unlink(p)
        \/ Ensure(p)
        \/ TmpWrite(p)
        \/ TmpFlush(p)
        \/ Replace(p)
        \/ BodyRaises(p)
        \/ Crash(p)

Spec == Init /\ [][Next]_vars

(***************************************************************************)
(* Claims about the lock and the concurrent store (Spec)                   *)
(***************************************************************************)

\* p is inside the body of `with file_lock(ENV_FILE)`
InBody(p) == pc[p] \in {"read", "tmp_write", "tmp_flush", "replace"} /\ ~fallback[p]

\* C1: at most one process is inside the body of `with file_lock(ENV_FILE)` at
\* any time, under every interleaving of the file_lock steps.
C1_MutualExclusion ==
    \A p, q \in Procs : p # q => ~(InBody(p) /\ InBody(q))

\* every line of the file, the REPO_LIST line without its key: a URL counts as
\* stored even on a line load_env_file cannot read back
StoredUrls(file) ==
    IF file = NoFile THEN {}
    ELSE LET key == REPO_LIST \o <<"=">>
             UrlOf(line) == IF StartsWith(line, key)
                            THEN SubSeq(line, Len(key) + 1, Len(line))
                            ELSE line
         IN  {UrlOf(line) : line \in Range(SplitLines(file))}

\* C2: when every process has run load_env_file -> ensure_url_in_repo_list ->
\* write_env to the end and no lock acquisition timed out, the final file's
\* REPO_LIST contains the URL of every process.
C2_NoLostUpdate ==
    ((\A p \in Procs : pc[p] = "done") /\ ~timed_out) =>
        \A p \in Procs : \A u \in Range(Discovered(p)) :
            normalize_url_for_list(u) \in StoredUrls(env_file)

\* C4: whenever the content at the ENV_FILE path changes, it changes in one
\* step from the complete previous document to the complete document of the
\* process doing os.replace; no step leaves anything else there, whether the
\* writer holds the lock, is on the fallback path, or is killed.
C4_AtomicReplace ==
    [][env_file' # env_file =>
          \E p \in Procs : /\ pc[p] = "replace"
                           /\ pc'[p] # "replace"
                           /\ env_file' = EnvContent(existing[p])]_vars

\* a writer was killed in the middle of its write (its temporary file holds
\* part of a document) and another process has replaced ENV_FILE
C4_Witness ==
    \E p, q \in Procs :
        /\ pc[p] = "crashed" /\ temp_file[p] # NoFile /\ Last(temp_file[p]) # "\n"
        /\ pc[q] = "done" /\ env_file # NoFile

\* C5: a process polling a lock that others hold has waited at most the
\* timeout plus one poll interval; it raises TimeoutError at the first poll
\* after the timeout, without the lock, and only a process holding the lock is
\* inside the body.
C5_BoundedWait ==
    \A p \in Procs :
        /\ pc[p] = "try" => elapsed[p] <= TimeoutTicks + PollTicks
        /\ pc[p] = "timeout_unlink" =>
              /\ elapsed[p] > TimeoutTicks
              /\ elapsed[p] <= TimeoutTicks + PollTicks
              /\ ~flocked[p]
        /\ InBody(p) => flocked[p]

\* a waiter has just raised TimeoutError while another process holds the lock
C5_Witness ==
    \E p, q \in Procs : p # q /\ pc[p] = "timeout_unlink" /\ flocked[q]

\* p is between the acquisition and the release of its flock
InBlock(p) == pc[p] \in BodyPcs \cup {"unlock", "unlock_exc"} /\ ~fallback[p]

\* the exclusive lock and the open handle exist only inside file_lock: a
\* process past the body, returned or raising, has neither, and a process
\* polling while no other process is inside a block finds the lock free
C12_Released ==
    \A p \in Procs :
        /\ flocked[p] => InBlock(p)
        /\ f[p] # 0 => (pc[p] = "try" \/ InBlock(p))
        /\ (pc[p] = "try" /\ \A q \in Procs \ {p} : ~InBlock(q))
               => ~InodeLocked(f[p])

\* lock_path.unlink() ends in the body's outcome, whether or not the marker
\* was still there to remove
C12_UnlinkSilent ==
    \A p \in Procs :
        (pc[p] \in {"unlink", "unlink_exc"} /\ pc'[p] \notin {pc[p], "crashed"})
            => pc'[p] = IF pc[p] = "unlink_exc" THEN "failed"
                        ELSE IF op[p] = "load" THEN "ensure" ELSE "done"

C15_TimeoutFallback ==
    [][\A p \in Procs :
          /\ (pc[p] = "timeout_unlink" /\ pc'[p] \notin {pc[p], "crashed"})
                => (fallback'[p] /\ pc'[p] = BodyStart(p))
          /\ (fallback[p] /\ pc'[p] \notin {pc[p], "crashed", "failed"})
                => /\ pc[p] = "read" =>
                        /\ pc'[p] = "ensure"
                        /\ existing'[p] = ParseEnv(env_file)
                        /\ env_file = NoFile => existing'[p] = <<>>
                   /\ pc[p] = "tmp_write" => (pc'[p] = "tmp_flush" /\ fallback'[p])
                   /\ pc[p] = "tmp_flush" => (pc'[p] = "replace" /\ fallback'[p])
                   /\ pc[p] = "replace" =>
                        /\ pc'[p] = "done"
                        /\ env_file' = EnvContent(existing[p])]_vars

\* a lock acquisition has timed out, and every process has run to the end of
\* write_env, so the file holds a complete document
C15_Witness ==
    /\ timed_out
    /\ \A p \in Procs : pc[p] = "done"
    /\ env_file # NoFile /\ ParseEnv(env_file) # <<>>

(***************************************************************************)
(* Claims about the helpers and the store (SpecMap)                        *)
(***************************************************************************)

RepoListOf(m) == parse_repo_list(DictGet(m, REPO_LIST, <<>>))

NormEqual(a, b) == normalize_url_for_list(a) = normalize_url_for_list(b)

PairwiseDistinct(list) ==
    \A i, j \in 1..Len(list) : i # j => ~NormEqual(list[i], list[j])

\* C3: load_env_file() right after write_env(M) returns exactly M, for every
\* mapping M with no "=" in a key, a REPO_LIST of several newline-joined URLs
\* included.
C3_RoundTrip ==
    (last.op = "load_env_file" /\ last.afterWrite) => DictEq(env_map, last.pre)

\* C6: when the parsed REPO_LIST is pairwise distinct under
\* normalize_url_for_list before an ensure_url_in_repo_list call, it is so
\* after it (hence after any sequence of such calls).
C6_RepoListUnique ==
    (last.op = "ensure_url_in_repo_list" /\ PairwiseDistinct(RepoListOf(last.pre)))
        => PairwiseDistinct(RepoListOf(env_map))

\* C7: ensure_url_in_repo_list on the stored list L with URL u: if no entry of
\* L is normalization-equal to u it returns True and the list becomes L
\* followed by normalize_url_for_list(u); otherwise it returns False and the
\* mapping is unchanged.
C7_EnsureResult ==
    last.op = "ensure_url_in_repo_list" =>
        LET L == RepoListOf(last.pre)
            present == \E i \in 1..Len(L) : NormEqual(L[i], last.arg)
        IN  IF present
            THEN ~last.ret /\ env_map = last.pre
            ELSE last.ret
                 /\ RepoListOf(env_map) = Append(L, normalize_url_for_list(last.arg))

Lower == <<"a", "b", "c", "d", "e", "f", "g", "h", "i", "j", "k", "l", "m", "n", "o", "p", "q", "r", "s", "t", "u", "v", "w", "x", "y", "z">>
Upper == <<"A", "B", "C", "D", "E", "F", "G", "H", "I", "J", "K", "L", "M", "N", "O", "P", "Q", "R", "S", "T", "U", "V", "W", "X", "Y", "Z">>

UpperChar(c) ==
    IF c \in Range(Lower) THEN Upper[CHOOSE i \in 1..Len(Lower) : Lower[i] = c] ELSE c

SlugChar(c) == IF c = "-" THEN "_" ELSE UpperChar(c)

\* 'REPO_' + slug uppercased with '-' replaced by '_'
RepoKeyPrefix(slug) == RepoPrefix \o MapSeq(slug, SlugChar)

SUFFIX_DEFAULT_BRANCH == <<"_", "D", "E", "F", "A", "U", "L", "T", "_", "B", "R", "A", "N", "C", "H">>
SUFFIX_LAST_SYNC == <<"_", "L", "A", "S", "T", "_", "S", "Y", "N", "C">>
SUFFIX_LAST_STATUS == <<"_", "L", "A", "S", "T", "_", "S", "T", "A", "T", "U", "S">>
SUFFIX_LAST_COMMIT == <<"_", "L", "A", "S", "T", "_", "C", "O", "M", "M", "I", "T">>
SUFFIX_ACTIVE_BRANCH == <<"_", "A", "C", "T", "I", "V", "E", "_", "B", "R", "A", "N", "C", "H">>

MetadataSuffixes ==
    { SUFFIX_DEFAULT_BRANCH, SUFFIX_LAST_SYNC, SUFFIX_LAST_STATUS,
      SUFFIX_LAST_COMMIT, SUFFIX_ACTIVE_BRANCH }

Digits == {"0", "1", "2", "3", "4", "5", "6", "7", "8", "9"}

\* YYYY-MM-DDTHH:MM:SSZ
IsUtcTimestamp(s) ==
    /\ Len(s) = 20
    /\ \A i \in {1, 2, 3, 4, 6, 7, 9, 10, 12, 13, 15, 16, 18, 19} : s[i] \in Digits
    /\ s[5] = "-" /\ s[8] = "-" /\ s[11] = "T"
    /\ s[14] = ":" /\ s[17] = ":" /\ s[20] = "Z"

\* C8: after update_env_repo(slug, url, branch, status, repo_dir) the persisted
\* store holds P_DEFAULT_BRANCH = branch, P_LAST_STATUS = status, a UTC
\* timestamp under P_LAST_SYNC, the keys P_LAST_COMMIT and P_ACTIVE_BRANCH, and
\* the normalized url in REPO_LIST, where P = 'REPO_' + slug uppercased with
\* '-' replaced by '_'.
C8_OutcomeRecorded ==
    last.op = "update_env_repo" =>
        LET stored == ParseEnv(env_file)
            P == RepoKeyPrefix(last.arg.slug)
        IN  /\ DictHas(stored, P \o SUFFIX_DEFAULT_BRANCH)
            /\ DictGet(stored, P \o SUFFIX_DEFAULT_BRANCH, <<>>) = last.arg.branch
            /\ DictHas(stored, P \o SUFFIX_LAST_STATUS)
            /\ DictGet(stored, P \o SUFFIX_LAST_STATUS, <<>>) = last.arg.status
            /\ IsUtcTimestamp(DictGet(stored, P \o SUFFIX_LAST_SYNC, <<>>))
            /\ DictHas(stored, P \o SUFFIX_LAST_COMMIT)
            /\ DictHas(stored, P \o SUFFIX_ACTIVE_BRANCH)
            /\ normalize_url_for_list(last.arg.url) \in Range(RepoListOf(stored))

EndsWith(s, suffix) ==
    Len(s) >= Len(suffix) /\ SubSeq(s, Len(s) - Len(suffix) + 1, Len(s)) = suffix

\* a legacy bare-slug key: 'REPO_' + token of uppercase letters, digits and
\* underscores, with no metadata suffix
IsLegacyKey(key) ==
    /\ MatchesRepoKey(key)
    /\ \A suffix \in MetadataSuffixes : ~EndsWith(key, suffix)

HasLegacyKey(m) == \E key \in DictKeys(m) : IsLegacyKey(key)

\* C9: after migrate_old_repo_keys(M) no key is a legacy bare-slug key, a
\* second application changes nothing more, and a mapping without legacy keys
\* is left as it was.
C9_MigratePostcondition ==
    last.op = "migrate_old_repo_keys" =>
        /\ ~HasLegacyKey(env_map)
        /\ migrate_old_repo_keys(env_map) = env_map
        /\ (~HasLegacyKey(last.pre) => env_map = last.pre)

\* C13: when the stored REPO_LIST is empty and discovery returned d1..dn,
\* pairwise distinct under normalization, the REPO_LIST that load_env_file()
\* returns right after ensure_repo_list parses to the n normalized URLs in
\* discovery order.
C13_DiscoveredPersisted ==
    ( /\ last.op = "load_env_file"
      /\ last.prevOp = "ensure_repo_list"
      /\ last.prevArg.stored = <<>>
      /\ PairwiseDistinct(last.prevArg.discovered) )
        => RepoListOf(env_map) =
               MapSeq(last.prevArg.discovered, normalize_url_for_list)

\* a per-repository metadata key: REPO_<SLUG> followed by a metadata suffix
IsMetadataKey(key) ==
    /\ StartsWith(key, RepoPrefix)
    /\ \E suffix \in MetadataSuffixes : EndsWith(key, suffix)

\* a global setting: REPO_LIST, or a key outside the REPO_ namespace
IsGlobalKey(key) == key = REPO_LIST \/ ~StartsWith(key, RepoPrefix)

\* C14: migrate_old_repo_keys leaves every metadata-suffixed key and every
\* global setting key, REPO_LIST included, present with the value it had.
C14_MigrateFrame ==
    last.op = "migrate_old_repo_keys" =>
        \A i \in 1..Len(last.pre) :
            LET key == last.pre[i].k
            IN  (IsMetadataKey(key) \/ IsGlobalKey(key)) =>
                    /\ DictHas(env_map, key)
                    /\ DictGet(env_map, key, <<>>) = last.pre[i].v

\* the fragments of raw between separators, left to right, trimmed, the empty
\* ones dropped: a scan over the characters with `cur` the fragment being read
RECURSIVE ScanFragments(_, _, _)
ScanFragments(raw, cur, acc) ==
    LET flushed == IF Strip(cur) = <<>> THEN acc ELSE Append(acc, Strip(cur))
    IN  IF raw = <<>> THEN flushed
        ELSE IF Head(raw) \in {"\n", ","}
        THEN ScanFragments(Tail(raw), <<>>, flushed)
        ELSE ScanFragments(Tail(raw), Append(cur, Head(raw)), acc)

C10_NormalizeIdempotent == nNorm = 2 => url = urlPrev

====
